---- MODULE Spec2Model ----
(***************************************************************************)
(* Pixelog: archive files as QR frames in a video container, with optional *)
(* password encryption and a delta/version manager.                        *)
(*                                                                         *)
(* Each subsystem is modelled with its own specification over the same     *)
(* variables:                                                              *)
(*   Spec         - the delta manager (internal/index/delta.go) and the    *)
(*                  artifact files its version log points at;              *)
(*   SpecCrypto   - the EncryptionService (crypto/encryption.go);          *)
(*   SpecConvert  - Converter.Convert / Converter.Extract and the CLI      *)
(*                  handlers that drive them;                              *)
(*   SpecParallel - concurrent callers of the delta manager sharing one    *)
(*                  sidecar file;                                          *)
(*   SpecIndex    - Indexer.BuildIndex and Indexer.Search;                 *)
(*   SpecVerify   - the frame loop of handleVerify;                        *)
(*   SpecPool     - the goroutines of Maker.ExtractMultipleFrames, and     *)
(*                  SpecPoolLive, the same under fair scheduling;          *)
(*   SpecConfig   - Config.Validate;                                       *)
(*   SpecBoundary - the Converter constructed with a chunk size at a limit *)
(*                  of Config.Validate;                                    *)
(*   SpecStream   - StreamingProcessor.StreamToVideo.                      *)
(***************************************************************************)
EXTENDS Integers, Sequences, FiniteSets, TLC

VARIABLES
    fs,       \* artifact files on disk: path -> content (DOMAIN = existing files)
    disk,     \* delta directory: memoryID -> persisted VersionedMemory
    hist,     \* ghost: memoryID -> content of the submitted artifact at each version
    ret,      \* what the last delta-manager call returned
    crypto,   \* one EncryptionService and the buffers handed to and returned by it
    conv,     \* one Converter, its input files, the archive and the output directory
    par,      \* concurrent callers of the delta manager and the sidecar they share
    idx,      \* one Indexer: the frames it indexes, the index built, the last search
    ver,      \* one run of the integrity verifier
    pool,     \* one ExtractMultipleFrames call and its goroutines
    val,      \* one Config and the outcome of its Validate call
    strm      \* one StreamingProcessor and the file it streams into an archive

deltaVars == <<fs, disk, hist, ret>>

\* what the delta-manager actions leave alone
nonDeltaVars == <<crypto, conv, par, idx, ver, pool, val, strm>>

\* what the EncryptionService actions leave alone
nonCryptoVars == <<fs, disk, hist, ret, conv, par, idx, ver, pool, val, strm>>

\* what the Converter actions leave alone
nonConvVars == <<fs, disk, hist, ret, crypto, par, idx, ver, pool, val, strm>>

\* what the concurrent delta-manager callers leave alone
nonParVars == <<fs, disk, hist, ret, crypto, conv, idx, ver, pool, val, strm>>

\* what the Indexer actions leave alone
nonIdxVars == <<fs, disk, hist, ret, crypto, conv, par, ver, pool, val, strm>>

\* what the verifier leaves alone
nonVerVars == <<fs, disk, hist, ret, crypto, conv, par, idx, pool, val, strm>>

\* what ExtractMultipleFrames leaves alone
nonPoolVars == <<fs, disk, hist, ret, crypto, conv, par, idx, ver, val, strm>>

\* what Config.Validate leaves alone
nonValVars == <<fs, disk, hist, ret, crypto, conv, par, idx, ver, pool, strm>>

\* what the StreamingProcessor leaves alone
nonStrmVars == <<fs, disk, hist, ret, crypto, conv, par, idx, ver, pool, val>>

vars == <<fs, disk, hist, ret, crypto, conv, par, idx, ver, pool, val, strm>>

(***************************************************************************)
(* Bounds of the delta-manager model.                                      *)
(***************************************************************************)
MaxHead == 3

Paths == {"a.pixe", "b.pixe"}

\* the archive whose version log is followed (memoryID := inputPath in the CLI)
Archive == "a.pixe"

Contents == {"c1", "c2"}

BranchNames == {"main", "dev"}

\* version arguments handed to the query operations, in and out of range
VersionArgs == 0 .. (MaxHead + 1)

\* fromVersion arguments handed to CreateBranch, in and out of range
BranchArgs == {0, 1, MaxHead}

(***************************************************************************)
(* Helpers.                                                                *)
(***************************************************************************)
\* a Go map / directory: the function f with key k set to v
MapPut(f, k, v) == [x \in (DOMAIN f) \cup {k} |-> IF x = k THEN v ELSE f[x]]

EmptyMap == [x \in {} |-> 0]

\* crypto/sha256 + %x: an injective fingerprint of the content
Sha256Hex(c) == "sha256:" \o c

\* DeltaManager.hashFile: "" when the file cannot be read
hashFile(path) == IF path \in DOMAIN fs THEN Sha256Hex(fs[path]) ELSE ""

\* the bytes stored at path now ("" when there is no such file)
ContentAt(path) == IF path \in DOMAIN fs THEN fs[path] ELSE ""

NoRet ==
    [op |-> "none", memoryID |-> "", from |-> 0, to |-> 0, err |-> FALSE,
     version |-> <<>>, ops |-> <<>>, path |-> "", versions |-> <<>>]

(***************************************************************************)
(* DeltaManager                                                            *)
(***************************************************************************)
\* calculateDelta: one replace_all operation carrying the new file's hash
calculateDelta(vm, newPixeFile) ==
    << [Type |-> "replace_all", FrameIndex |-> 0, OldHash |-> "",
        NewHash |-> hashFile(newPixeFile), ChunkData |-> ""] >>

\* mutant of BaseMemory: the memory id is stored where the artifact path belongs
BaseMemory_IdAsBase(memoryID, newPixeFile) ==
    [MemoryID |-> memoryID, BaseFile |-> memoryID, CurrentHead |-> 1,
     Versions |-> <<>>, Branches |-> [b \in {"main"} |-> 1]]

\* CreateVersion, first branch: os.IsNotExist(err) -> the base log
BaseMemory(memoryID, newPixeFile) ==
    [MemoryID |-> memoryID, BaseFile |-> newPixeFile, CurrentHead |-> 1,
     Versions |-> <<>>, Branches |-> [b \in {"main"} |-> 1]]

\* CreateVersion, second branch: the DeltaVersion that is appended
NewDeltaVersion(vm, newPixeFile) ==
    LET ops == calculateDelta(vm, newPixeFile)
    IN  [Version |-> vm.CurrentHead + 1, ParentVersion |-> vm.CurrentHead,
         DeltaFile |-> newPixeFile, Operations |-> ops, FrameCount |-> Len(ops)]

\* mutant of AppendVersion: the main branch is not advanced
AppendVersion_StaleMain(vm, deltaVer) ==
    [vm EXCEPT !.Versions = Append(vm.Versions, deltaVer),
               !.CurrentHead = deltaVer.Version]

\* CreateVersion, second branch: the log after the append
AppendVersion(vm, deltaVer) ==
    [vm EXCEPT !.Versions = Append(vm.Versions, deltaVer),
               !.CurrentHead = deltaVer.Version,
               !.Branches = MapPut(vm.Branches, "main", deltaVer.Version)]

CreateVersion(memoryID, newPixeFile) ==
    IF memoryID \notin DOMAIN disk
    THEN /\ disk' = MapPut(disk, memoryID, BaseMemory(memoryID, newPixeFile))
         /\ hist' = MapPut(hist, memoryID, << ContentAt(newPixeFile) >>)
         /\ ret' = [NoRet EXCEPT !.op = "CreateVersion", !.memoryID = memoryID,
                                 !.path = newPixeFile]
         /\ UNCHANGED <<fs, nonDeltaVars>>
    ELSE LET vm == disk[memoryID]
             deltaVer == NewDeltaVersion(vm, newPixeFile)
         IN  /\ vm.CurrentHead < MaxHead
             /\ disk' = MapPut(disk, memoryID, AppendVersion(vm, deltaVer))
             /\ hist' = MapPut(hist, memoryID,
                               Append(hist[memoryID], ContentAt(newPixeFile)))
             /\ ret' = [NoRet EXCEPT !.op = "CreateVersion", !.memoryID = memoryID,
                                     !.path = newPixeFile,
                                     !.version = << deltaVer >>]
             /\ UNCHANGED <<fs, nonDeltaVars>>

\* handleVersion: memoryID := inputPath; CreateVersion(memoryID, inputPath, ...)
handleVersion(inputPath) == CreateVersion(inputPath, inputPath)

RECURSIVE ReconstructLoop(_, _, _, _)
\* the for loop of ReconstructVersion; i is the Go index (0-based)
ReconstructLoop(vm, version, i, currentFile) ==
    IF i < Len(vm.Versions) /\ vm.Versions[i + 1].Version <= version
    THEN ReconstructLoop(vm, version, i + 1, vm.Versions[i + 1].DeltaFile)
    ELSE currentFile

\* ReconstructVersion after a successful load: the path it returns
ReconstructPath(vm, version) ==
    IF version = 1
    THEN vm.BaseFile
    ELSE ReconstructLoop(vm, version, 0, vm.BaseFile)

ReconstructVersion(memoryID, version) ==
    /\ ret' = IF memoryID \notin DOMAIN disk
              THEN [NoRet EXCEPT !.op = "ReconstructVersion", !.memoryID = memoryID,
                                 !.from = version, !.err = TRUE]
              ELSE [NoRet EXCEPT !.op = "ReconstructVersion", !.memoryID = memoryID,
                                 !.from = version,
                                 !.path = ReconstructPath(disk[memoryID], version)]
    /\ UNCHANGED <<fs, disk, hist, nonDeltaVars>>

\* mutant of WithBranch: the new branch is also checked out as the head
WithBranch_MovesHead(vm, branchName, fromVersion) ==
    [vm EXCEPT !.Branches = MapPut(@, branchName, fromVersion),
               !.CurrentHead = fromVersion]

\* vm.Branches[branchName] = fromVersion
WithBranch(vm, branchName, fromVersion) ==
    [vm EXCEPT !.Branches = MapPut(@, branchName, fromVersion)]

CreateBranch(memoryID, branchName, fromVersion) ==
    /\ IF memoryID \notin DOMAIN disk
       THEN /\ ret' = [NoRet EXCEPT !.op = "CreateBranch", !.memoryID = memoryID,
                                    !.err = TRUE]
            /\ UNCHANGED disk
       ELSE IF branchName \in DOMAIN disk[memoryID].Branches
       THEN /\ ret' = [NoRet EXCEPT !.op = "CreateBranch", !.memoryID = memoryID,
                                    !.err = TRUE]
            /\ UNCHANGED disk
       ELSE /\ disk' = [disk EXCEPT ![memoryID] =
                            WithBranch(@, branchName, fromVersion)]
            /\ ret' = [NoRet EXCEPT !.op = "CreateBranch", !.memoryID = memoryID]
    /\ UNCHANGED <<fs, hist, nonDeltaVars>>

RECURSIVE DiffLoop(_, _, _, _)
\* the for loop of GetVersionDiff; Go's vm.Versions[i-1] is Versions[i] here
DiffLoop(vm, i, toVersion, allOps) ==
    IF i < toVersion /\ i <= Len(vm.Versions)
    THEN DiffLoop(vm, i + 1, toVersion,
                  IF i > 0 /\ i <= Len(vm.Versions)
                  THEN allOps \o vm.Versions[i].Operations
                  ELSE allOps)
    ELSE allOps

\* mutant of VersionDiffOps: version v taken to be stored at Go index v-1
VersionDiffOps_OffByOne(vm, fromVersion, toVersion) ==
    DiffLoop(vm, fromVersion + 1, toVersion + 1, <<>>)

\* GetVersionDiff after a successful load: the operations it returns
VersionDiffOps(vm, fromVersion, toVersion) == DiffLoop(vm, fromVersion, toVersion, <<>>)

GetVersionDiff(memoryID, fromVersion, toVersion) ==
    /\ ret' = IF memoryID \notin DOMAIN disk
              THEN [NoRet EXCEPT !.op = "GetVersionDiff", !.memoryID = memoryID,
                                 !.from = fromVersion, !.to = toVersion,
                                 !.err = TRUE]
              ELSE [NoRet EXCEPT !.op = "GetVersionDiff", !.memoryID = memoryID,
                                 !.from = fromVersion, !.to = toVersion,
                                 !.ops = VersionDiffOps(disk[memoryID],
                                                        fromVersion, toVersion)]
    /\ UNCHANGED <<fs, disk, hist, nonDeltaVars>>

\* ListVersions after a successful load
ListedVersions(vm) == vm.Versions

ListVersions(memoryID) ==
    /\ ret' = IF memoryID \notin DOMAIN disk
              THEN [NoRet EXCEPT !.op = "ListVersions", !.memoryID = memoryID,
                                 !.err = TRUE]
              ELSE [NoRet EXCEPT !.op = "ListVersions", !.memoryID = memoryID,
                                 !.versions = ListedVersions(disk[memoryID])]
    /\ UNCHANGED <<fs, disk, hist, nonDeltaVars>>

\* Converter.Convert writes its output file: the artifact at path now holds c
WriteArtifact(path, c) ==
    /\ ContentAt(path) # c
    /\ fs' = MapPut(fs, path, c)
    /\ ret' = NoRet
    /\ UNCHANGED <<disk, hist, nonDeltaVars>>

\* the service before any call
CryptoIdle == [stage |-> "idle"]

\* the converter before any call
ConvIdle == [stage |-> "idle"]

ParIdle == [stage |-> "idle"]

IdxIdle == [stage |-> "idle"]

VerIdle == [stage |-> "idle"]

PoolIdle == [stage |-> "idle"]

ValIdle == [stage |-> "idle"]

StrmIdle == [stage |-> "idle"]

DeltaInit ==
    /\ fs = [p \in Paths |-> "c1"]
    /\ disk = EmptyMap
    /\ hist = EmptyMap
    /\ ret = NoRet

\* the subsystems the first three specifications do not run
RestIdle ==
    /\ par = ParIdle /\ idx = IdxIdle /\ ver = VerIdle /\ pool = PoolIdle
    /\ val = ValIdle /\ strm = StrmIdle

Init == DeltaInit /\ crypto = CryptoIdle /\ conv = ConvIdle /\ RestIdle

Next ==
    \/ \E p \in Paths, c \in Contents : WriteArtifact(p, c)
    \/ handleVersion(Archive)
    \/ \E p \in Paths \ {Archive} : CreateVersion(Archive, p)
    \/ \E b \in BranchNames, v \in BranchArgs : CreateBranch(Archive, b, v)
    \/ \E v \in VersionArgs : ReconstructVersion(Archive, v)
    \/ \E f \in VersionArgs, t \in VersionArgs : GetVersionDiff(Archive, f, t)
    \/ ListVersions(Archive)

Spec == Init /\ [][Next]_vars

(***************************************************************************)
(* EncryptionService (crypto/encryption.go).  A buffer is a sequence of    *)
(* bytes 0..255.  The library primitives (PBKDF2, AES-GCM, crypto/rand)    *)
(* are idealised: the key depends on password and salt, the keystream      *)
(* cipher is invertible, and a tag made under one key never verifies       *)
(* under another.                                                          *)
(***************************************************************************)
SaltLen == 32

NonceLen == 12

HeaderLen == 44

TagLen == 16

\* longest plaintext buffer drawn in SpecCrypto
MaxDataLen == 2

\* byte values plaintexts are drawn from: 'A' and 0xC8 (not UTF-8 on its own)
PlainBytes == {65, 200}

Passwords == {"", "p", "q"}

\* outcomes of one crypto/rand read that are followed
RandSeeds == {7, 200}

\* every buffer of at most n bytes over PlainBytes
Buffers(n) == UNION {[1 .. k -> PlainBytes] : k \in 0 .. n}

\* rand.Read(buf): n bytes decided by the seed r
RandRead(n, r) == [i \in 1 .. n |-> (r + i) % 256]

PwCode(password) == CASE password = "p" -> 1 [] password = "q" -> 2 [] OTHER -> 0

\* pbkdf2.Key(password, salt, 100000, 32, sha256.New)
Pbkdf2Key(password, salt) == (PwCode(password) * 31 + salt[1] + salt[Len(salt)]) % 256

RECURSIVE SumRange(_, _, _)
SumRange(s, lo, hi) ==
    IF lo > hi THEN 0
    ELSE IF lo = hi THEN s[lo]
    ELSE LET mid == (lo + hi) \div 2
         IN  (SumRange(s, lo, mid) + SumRange(s, mid + 1, hi)) % 256

\* a digest of the bytes of s
SumBytes(s) == SumRange(s, 1, Len(s))

KeyStream(key, nonce, i) == (key * 7 + nonce[1] + 13 * i) % 256

\* the GCM authentication tag over the ciphertext
GcmTag(key, nonce, ct) ==
    [j \in 1 .. TagLen |-> (key + nonce[1] + SumBytes(ct) + j) % 256]

\* gcm.Seal(nil, nonce, data, nil): ciphertext || tag
GcmSeal(key, nonce, data) ==
    LET ct == [i \in 1 .. Len(data) |-> (data[i] + KeyStream(key, nonce, i)) % 256]
    IN  ct \o GcmTag(key, nonce, ct)

\* gcm.Open(nil, nonce, ciphertext, nil)
GcmOpen(key, nonce, sealed) ==
    IF Len(sealed) < TagLen
    THEN [err |-> TRUE, data |-> <<>>]
    ELSE LET n == Len(sealed) - TagLen
             ct == SubSeq(sealed, 1, n)
             tag == SubSeq(sealed, n + 1, Len(sealed))
         IN  IF GcmTag(key, nonce, ct) # tag
             THEN [err |-> TRUE, data |-> <<>>]
             ELSE [err |-> FALSE,
                   data |-> [i \in 1 .. n |->
                                (ct[i] + 256 - KeyStream(key, nonce, i)) % 256]]

\* EncryptData; rs and rn are the outcomes of the two rand.Read calls
EncryptData(enabled, data, password, rs, rn) ==
    IF ~enabled
    THEN [err |-> FALSE, data |-> data]
    ELSE IF password = ""
    THEN [err |-> TRUE, data |-> <<>>]
    ELSE LET salt == RandRead(SaltLen, rs)
             key == Pbkdf2Key(password, salt)
             nonce == RandRead(NonceLen, rn)
             ciphertext == GcmSeal(key, nonce, data)
         IN  [err |-> FALSE, data |-> salt \o nonce \o ciphertext]

\* mutant of DecryptData: the result of gcm.Open is used without its error
DecryptData_IgnoreAuth(enabled, encrypted, password) ==
    IF ~enabled
    THEN [err |-> FALSE, data |-> encrypted]
    ELSE IF password = ""
    THEN [err |-> TRUE, data |-> <<>>]
    ELSE IF Len(encrypted) < HeaderLen
    THEN [err |-> TRUE, data |-> <<>>]
    ELSE LET salt == SubSeq(encrypted, 1, SaltLen)
             nonce == SubSeq(encrypted, SaltLen + 1, HeaderLen)
             ciphertext == SubSeq(encrypted, HeaderLen + 1, Len(encrypted))
             key == Pbkdf2Key(password, salt)
             n == Len(ciphertext) - TagLen
         IN  [err |-> FALSE,
              data |-> [i \in 1 .. n |->
                           (ciphertext[i] + 256 - KeyStream(key, nonce, i)) % 256]]

DecryptData(enabled, encrypted, password) ==
    IF ~enabled
    THEN [err |-> FALSE, data |-> encrypted]
    ELSE IF password = ""
    THEN [err |-> TRUE, data |-> <<>>]
    ELSE IF Len(encrypted) < HeaderLen
    THEN [err |-> TRUE, data |-> <<>>]
    ELSE LET salt == SubSeq(encrypted, 1, SaltLen)
             nonce == SubSeq(encrypted, SaltLen + 1, HeaderLen)
             ciphertext == SubSeq(encrypted, HeaderLen + 1, Len(encrypted))
             key == Pbkdf2Key(password, salt)
         IN  GcmOpen(key, nonce, ciphertext)

\* NewEncryptionService(enabled), and the buffer and password of the next call
CryptoFresh ==
    \E enabled \in BOOLEAN, data \in Buffers(MaxDataLen), password \in Passwords :
        crypto = [stage |-> "new", enabled |-> enabled, data |-> data,
                  password |-> password, enc |-> [err |-> FALSE, data |-> <<>>],
                  intact |-> TRUE, q |-> "", dec |-> [err |-> FALSE, data |-> <<>>]]

CallEncryptData(rs, rn) ==
    /\ crypto.stage = "new"
    /\ crypto' = [crypto EXCEPT
                     !.stage = "encrypted",
                     !.enc = EncryptData(crypto.enabled, crypto.data,
                                         crypto.password, rs, rn)]
    /\ UNCHANGED nonCryptoVars

\* the stored buffer loses its tail before it is handed back (k bytes are left)
Truncate(k) ==
    /\ crypto.stage = "encrypted"
    /\ ~crypto.enc.err
    /\ crypto.intact
    /\ k < Len(crypto.enc.data)
    /\ crypto' = [crypto EXCEPT !.intact = FALSE,
                                !.enc.data = SubSeq(crypto.enc.data, 1, k)]
    /\ UNCHANGED nonCryptoVars

CallDecryptData(q) ==
    /\ crypto.stage = "encrypted"
    /\ ~crypto.enc.err
    /\ crypto' = [crypto EXCEPT
                     !.stage = "decrypted",
                     !.q = q,
                     !.dec = DecryptData(crypto.enabled, crypto.enc.data, q)]
    /\ UNCHANGED nonCryptoVars

CryptoNext ==
    \/ \E rs \in RandSeeds, rn \in RandSeeds : CallEncryptData(rs, rn)
    \/ \E k \in {HeaderLen - 1, HeaderLen + TagLen - 1} : Truncate(k)
    \/ \E q \in Passwords : CallDecryptData(q)

CryptoInit == CryptoFresh /\ DeltaInit /\ conv = ConvIdle /\ RestIdle

SpecCrypto == CryptoInit /\ [][CryptoNext]_vars

(***************************************************************************)
(* Encodings used by the converter.  A Go string is a sequence of bytes.   *)
(***************************************************************************)
IsCont(b) == b \in 128 .. 191

\* utf8.DecodeRuneInString at position i: the length of the well-formed
\* encoding that starts there, 0 when there is none (RuneError, size 1)
RuneLen(s, i) ==
    LET at(k) == IF i + k <= Len(s) THEN s[i + k] ELSE -1
        b == s[i]
    IN  CASE b < 128 -> 1
          [] b \in 194 .. 223 -> IF IsCont(at(1)) THEN 2 ELSE 0
          [] b = 224 -> IF at(1) \in 160 .. 191 /\ IsCont(at(2)) THEN 3 ELSE 0
          [] b \in (225 .. 236) \cup {238, 239} ->
                IF IsCont(at(1)) /\ IsCont(at(2)) THEN 3 ELSE 0
          [] b = 237 -> IF at(1) \in 128 .. 159 /\ IsCont(at(2)) THEN 3 ELSE 0
          [] b = 240 ->
                IF at(1) \in 144 .. 191 /\ IsCont(at(2)) /\ IsCont(at(3)) THEN 4 ELSE 0
          [] b \in 241 .. 243 ->
                IF IsCont(at(1)) /\ IsCont(at(2)) /\ IsCont(at(3)) THEN 4 ELSE 0
          [] b = 244 ->
                IF at(1) \in 128 .. 143 /\ IsCont(at(2)) /\ IsCont(at(3)) THEN 4 ELSE 0
          [] OTHER -> 0

\* U+FFFD as UTF-8
ReplacementChar == <<239, 191, 189>>

RECURSIVE ConcatRange(_, _, _)
ConcatRange(parts, lo, hi) ==
    IF lo > hi THEN <<>>
    ELSE IF lo = hi THEN parts[lo]
    ELSE LET mid == (lo + hi) \div 2
         IN  ConcatRange(parts, lo, mid) \o ConcatRange(parts, mid + 1, hi)

\* the concatenation of a sequence of sequences
Concat(parts) == ConcatRange(parts, 1, Len(parts))

\* for a continuation byte at i: the position of the byte that can lead it
\* (at most three back, only continuation bytes in between), 0 if none
LeadOf(s, i) ==
    IF i >= 2 /\ ~IsCont(s[i - 1]) THEN i - 1
    ELSE IF i >= 3 /\ ~IsCont(s[i - 2]) THEN i - 2
    ELSE IF i >= 4 /\ ~IsCont(s[i - 3]) THEN i - 3
    ELSE 0

\* what the encoder emits for the byte at i: the byte itself when it belongs
\* to a well-formed rune, U+FFFD when it does not
CoercedAt(s, i) ==
    IF IsCont(s[i])
    THEN LET j == LeadOf(s, i)
         IN  IF j > 0 /\ RuneLen(s, j) >= i - j + 1 THEN <<s[i]>> ELSE ReplacementChar
    ELSE IF RuneLen(s, i) = 0 THEN ReplacementChar ELSE <<s[i]>>

\* what a string field holds after json.Marshal then json.Unmarshal: escapes
\* are undone, every byte that is not part of well-formed UTF-8 is U+FFFD
Utf8Coerce(s) == Concat([i \in 1 .. Len(s) |-> CoercedAt(s, i)])

\* base64.StdEncoding alphabet: the character of a 6-bit value
B64Char(v) ==
    CASE v < 26 -> 65 + v
      [] v < 52 -> 97 + (v - 26)
      [] v < 62 -> 48 + (v - 52)
      [] v = 62 -> 43
      [] OTHER -> 47

\* the 6-bit value of a character, -1 for a character outside the alphabet
B64Value(c) ==
    CASE c \in 65 .. 90 -> c - 65
      [] c \in 97 .. 122 -> c - 97 + 26
      [] c \in 48 .. 57 -> c - 48 + 52
      [] c = 43 -> 62
      [] c = 47 -> 63
      [] OTHER -> -1

B64Pad == 61

\* the characters of the k-th group of three bytes (the last may be short)
B64Group(data, k) ==
    LET o == 3 * (k - 1)
        n == Len(data) - o
        b1 == data[o + 1]
        b2 == IF n >= 2 THEN data[o + 2] ELSE 0
        b3 == IF n >= 3 THEN data[o + 3] ELSE 0
    IN  <<B64Char(b1 \div 4),
          B64Char((b1 % 4) * 16 + b2 \div 16),
          IF n >= 2 THEN B64Char((b2 % 16) * 4 + b3 \div 64) ELSE B64Pad,
          IF n >= 3 THEN B64Char(b3 % 64) ELSE B64Pad>>

\* base64.StdEncoding.EncodeToString
Base64Encode(data) ==
    Concat([k \in 1 .. (Len(data) + 2) \div 3 |-> B64Group(data, k)])

\* the bytes of the k-th group of four characters; last says it ends the input
B64Quad(s, k, last) ==
    LET o == 4 * (k - 1)
        v == [m \in 1 .. 4 |-> B64Value(s[o + m])]
        bad == [err |-> TRUE, data |-> <<>>]
        b1 == v[1] * 4 + v[2] \div 16
        b2 == (v[2] % 16) * 16 + v[3] \div 4
        b3 == (v[3] % 4) * 64 + v[4]
    IN  IF v[1] < 0 \/ v[2] < 0 THEN bad
        ELSE IF last /\ s[o + 3] = B64Pad /\ s[o + 4] = B64Pad
        THEN IF v[2] % 16 = 0 THEN [err |-> FALSE, data |-> <<b1>>] ELSE bad
        ELSE IF last /\ s[o + 4] = B64Pad /\ v[3] >= 0
        THEN IF v[3] % 4 = 0 THEN [err |-> FALSE, data |-> <<b1, b2>>] ELSE bad
        ELSE IF v[3] < 0 \/ v[4] < 0 THEN bad
        ELSE [err |-> FALSE, data |-> <<b1, b2, b3>>]

\* base64.StdEncoding.DecodeString
Base64Decode(s) ==
    LET g == Len(s) \div 4
        quads == [k \in 1 .. g |-> B64Quad(s, k, k = g)]
    IN  IF Len(s) % 4 # 0 \/ \E k \in 1 .. g : quads[k].err
        THEN [err |-> TRUE, data |-> <<>>]
        ELSE [err |-> FALSE, data |-> Concat([k \in 1 .. g |-> quads[k].data])]

\* sha256 of a buffer, idealised as collision free
Sha256OfBytes(data) == [sha256 |-> data]

(***************************************************************************)
(* Config.Validate (package config).  The frame rate, a float64, is        *)
(* counted in tenths of a frame per second.                                *)
(***************************************************************************)
\* `c.ChunkSize > 4000`
MaxChunkSize == 4000

\* `c.Quality > 51`
MaxQuality == 51

\* `c.FrameRate > 60`, in tenths
MaxFrameRate == 600

ChunkSizeInputs == {-1, 0, 1, 2800, MaxChunkSize, MaxChunkSize + 1, 5000}

QualityInputs == {-1, 0, 23, MaxQuality, MaxQuality + 1, 100}

FrameRateInputs == {-1, 0, 1, 5, 20, MaxFrameRate, MaxFrameRate + 1}

\* config.Default(), the temporary and the output directory named
Default ==
    [ChunkSize |-> 2800, Quality |-> 23, FrameRate |-> 5,
     TempDir |-> "pixelog-0", OutputDir |-> "Documents/Pixelog"]

ValidateInputs ==
    [ChunkSize : ChunkSizeInputs, Quality : QualityInputs,
     FrameRate : FrameRateInputs, TempDir : {"", "pixelog-0"},
     OutputDir : {"", "Documents/Pixelog"}]

\* the first check of Validate
ChunkSizeRejected(c) == c.ChunkSize <= 0 \/ c.ChunkSize > MaxChunkSize

\* mutant of Validate: the quality has no upper limit
Validate_AnyQuality(c, mkdirTemp, mkdirAllTemp, mkdirAllOut) ==
    LET withTemp == IF c.TempDir = "" THEN [c EXCEPT !.TempDir = "pixelog-1"] ELSE c
        withOut == IF withTemp.OutputDir = ""
                   THEN [withTemp EXCEPT !.OutputDir = "./output"] ELSE withTemp
    IN  IF ChunkSizeRejected(c) THEN [err |-> "chunk size", cfg |-> c]
        ELSE IF c.Quality < 0 THEN [err |-> "quality", cfg |-> c]
        ELSE IF c.FrameRate <= 0 \/ c.FrameRate > MaxFrameRate
        THEN [err |-> "frame rate", cfg |-> c]
        ELSE IF c.TempDir = "" /\ ~mkdirTemp THEN [err |-> "temp directory", cfg |-> c]
        ELSE IF ~mkdirAllTemp THEN [err |-> "temp directory", cfg |-> withOut]
        ELSE IF ~mkdirAllOut THEN [err |-> "output directory", cfg |-> withOut]
        ELSE [err |-> "", cfg |-> withOut]

\* c.Validate(): the error ("" for nil) and the configuration afterwards;
\* mkdirTemp, mkdirAllTemp and mkdirAllOut tell whether os.MkdirTemp and the
\* two os.MkdirAll calls succeed
Validate(c, mkdirTemp, mkdirAllTemp, mkdirAllOut) ==
    LET withTemp == IF c.TempDir = "" THEN [c EXCEPT !.TempDir = "pixelog-1"] ELSE c
        withOut == IF withTemp.OutputDir = ""
                   THEN [withTemp EXCEPT !.OutputDir = "./output"] ELSE withTemp
    IN  IF ChunkSizeRejected(c) THEN [err |-> "chunk size", cfg |-> c]
        ELSE IF c.Quality < 0 \/ c.Quality > MaxQuality THEN [err |-> "quality", cfg |-> c]
        ELSE IF c.FrameRate <= 0 \/ c.FrameRate > MaxFrameRate
        THEN [err |-> "frame rate", cfg |-> c]
        ELSE IF c.TempDir = "" /\ ~mkdirTemp THEN [err |-> "temp directory", cfg |-> c]
        ELSE IF ~mkdirAllTemp THEN [err |-> "temp directory", cfg |-> withOut]
        ELSE IF ~mkdirAllOut THEN [err |-> "output directory", cfg |-> withOut]
        ELSE [err |-> "", cfg |-> withOut]

\* a configuration a caller has filled in
ValFresh ==
    \E c \in ValidateInputs :
        val = [stage |-> "new", input |-> c, cfg |-> c, dirsOk |-> FALSE, err |-> ""]

CallValidate(mkdirTemp, mkdirAllTemp, mkdirAllOut) ==
    /\ val.stage = "new"
    /\ LET r == Validate(val.cfg, mkdirTemp, mkdirAllTemp, mkdirAllOut)
       IN  val' = [val EXCEPT !.stage = "validated", !.cfg = r.cfg, !.err = r.err,
                              !.dirsOk = mkdirTemp /\ mkdirAllTemp /\ mkdirAllOut]
    /\ UNCHANGED nonValVars

ValNext ==
    \E mkdirTemp, mkdirAllTemp, mkdirAllOut \in BOOLEAN :
        CallValidate(mkdirTemp, mkdirAllTemp, mkdirAllOut)

ValInit ==
    DeltaInit /\ ValFresh /\ crypto = CryptoIdle /\ conv = ConvIdle
    /\ par = ParIdle /\ idx = IdxIdle /\ ver = VerIdle /\ pool = PoolIdle
    /\ strm = StrmIdle

SpecConfig == ValInit /\ [][ValNext]_vars

(***************************************************************************)
(* Converter (internal/converter/converter.go) and the QR generator.       *)
(* A file is [name, data]; an input is the list of files analyzeInput      *)
(* finds, in walk (lexical) order.                                         *)
(***************************************************************************)
\* longest single input file followed
MaxFileLen == 2

\* longest file of a directory input followed
MaxDirFileLen == 1

\* byte values files are drawn from: 'A' and the two bytes of U+00E9
FileBytes == {65, 195, 169}

FileData(n) == UNION {[1 .. k -> FileBytes] : k \in 0 .. n}

MetadataReserve == 200

ChunkSizes == {201, 2900}

\* configurations the API callers construct a Converter with (config.Validate
\* accepts ChunkSize 1..4000)
Configs == [ChunkSize : ChunkSizes, EncryptionEnabled : BOOLEAN]

\* the literal config of handleConvert and handleExtract: EncryptionEnabled
\* is not set and keeps its zero value
CliConfig == [ChunkSize |-> 2900, EncryptionEnabled |-> FALSE]

\* mime.TypeByExtension(filepath.Ext(filePath)); "" for an unknown extension
TypeByExtension(name) ==
    CASE name = "test.txt" -> "text/plain; charset=utf-8"
      [] name = "data.json" -> "application/json"
      [] OTHER -> ""

\* strings.HasPrefix(mimeType, "text/")
HasTextPrefix(mimeType) == mimeType = "text/plain; charset=utf-8"

\* how createChunks ends on non-empty data when chunkSize is not positive:
\* in the first iteration a chunkSize of 0 makes the division of `Total:`
\* panic, and a negative one makes `data[i:end]` panic (end < 0)
ChunkingFault(cfg, data) ==
    LET chunkSize == cfg.ChunkSize - MetadataReserve
    IN  IF Len(data) = 0 \/ chunkSize > 0 THEN "none" ELSE "panic"

\* createChunks for a positive chunkSize: iteration n (0-based) of the loop
\* starts at offset n * chunkSize and appends chunk n; the second loop sets
\* Total to the number of chunks
createChunks(cfg, data, filePath, mimeType, hash, encrypted) ==
    LET chunkSize == cfg.ChunkSize - MetadataReserve
        count == IF chunkSize > 0 THEN (Len(data) + chunkSize - 1) \div chunkSize
                 ELSE 0
        End(i) == IF i + chunkSize > Len(data) THEN Len(data) ELSE i + chunkSize
    IN  [n \in 1 .. count |->
            [ID |-> <<hash, n - 1>>,
             Index |-> n - 1,
             Total |-> count,
             Data |-> SubSeq(data, (n - 1) * chunkSize + 1, End((n - 1) * chunkSize)),
             SourceFile |-> filePath,
             MimeType |-> mimeType,
             Hash |-> hash,
             Encrypted |-> encrypted]]

\* processFile; rs and rn decide the salt and the nonce if the file is encrypted
processFile(cfg, file, encryptionPassword, rs, rn) ==
    LET IsEnabled == cfg.EncryptionEnabled
        isEncrypted == encryptionPassword # "" /\ IsEnabled
        enc == IF isEncrypted
               THEN EncryptData(IsEnabled, file.data, encryptionPassword, rs, rn)
               ELSE [err |-> FALSE, data |-> file.data]
        data == enc.data
        hash == Sha256OfBytes(data)
        ext == TypeByExtension(file.name)
        mimeType == IF ext = "" THEN "application/octet-stream" ELSE ext
        item == [Name |-> file.name, Type |-> mimeType, Size |-> Len(data),
                 Hash |-> hash]
        encodedData == IF HasTextPrefix(mimeType) THEN data ELSE Base64Encode(data)
        Chunked(encoded) ==
            [err |-> FALSE,
             fault |-> ChunkingFault(cfg, encoded),
             chunks |-> createChunks(cfg, encoded, file.name, mimeType, hash,
                                     isEncrypted),
             item |-> item]
    IN  IF enc.err
        THEN [err |-> TRUE, fault |-> "none", chunks |-> <<>>, item |-> item]
        ELSE Chunked(encodedData)

\* json.Marshal(chunk) as read back by json.Unmarshal: the string fields are
\* coerced to well-formed UTF-8
JsonMarshal(chunk) == [chunk EXCEPT !.Data = Utf8Coerce(@)]

\* GenerateFrames: frame i (0-based file name frame_%05d.png) carries chunk i
GenerateFrames(chunks) ==
    [i \in 1 .. Len(chunks) |-> [frame |-> i - 1, text |-> JsonMarshal(chunks[i])]]

\* DecodeFrame: the chunk the frame's JSON text unmarshals to
DecodeFrame(frame) == frame.text

RECURSIVE ProcessFiles(_, _, _, _, _, _)
\* the loop of Convert over the files, file k encrypting with the k-th
\* outcomes of crypto/rand
ProcessFiles(cfg, files, k, password, rs, rn) ==
    IF k > Len(files)
    THEN [err |-> FALSE, fault |-> "none", allChunks |-> <<>>, contents |-> <<>>]
    ELSE LET After(r, rest) ==
                 IF r.err
                 THEN [err |-> TRUE, fault |-> "none", allChunks |-> <<>>,
                       contents |-> <<>>]
                 ELSE IF r.fault # "none"
                 THEN [err |-> FALSE, fault |-> r.fault, allChunks |-> <<>>,
                       contents |-> <<>>]
                 ELSE IF rest.err \/ rest.fault # "none"
                 THEN rest
                 ELSE [err |-> FALSE, fault |-> "none",
                       allChunks |-> r.chunks \o rest.allChunks,
                       contents |-> <<r.item>> \o rest.contents]
         IN  After(processFile(cfg, files[k], password, rs + k - 1, rn + k - 1),
                   ProcessFiles(cfg, files, k + 1, password, rs, rn))

\* Maker.CreateVideo: the frames in order and the metadata become the archive
CreateVideo(frames, metadata) == [frames |-> frames, metadata |-> metadata]

\* Converter.Convert: the error and the archive written
Convert(cfg, files, password, rs, rn) ==
    LET Written(p) ==
            IF p.err \/ p.fault # "none"
            THEN [err |-> p.err, fault |-> p.fault, archive |-> CreateVideo(<<>>, <<>>)]
            ELSE LET framePaths == GenerateFrames(p.allChunks)
                     metadata == [Version |-> "1.0.0",
                                  TotalChunks |-> Len(p.allChunks),
                                  Contents |-> p.contents, Config |-> cfg]
                 IN  [err |-> FALSE, fault |-> "none",
                      archive |-> CreateVideo(framePaths, metadata)]
    IN  Written(ProcessFiles(cfg, files, 1, password, rs, rn))

\* the data of the chunks of one source file, concatenated by index; a
\* missing index makes the archive corrupt
AssembleByIndex(chunks, total) ==
    LET At(k) == {c \in chunks : c.Index = k}
    IN  IF \E k \in 0 .. total - 1 : At(k) = {}
        THEN [err |-> TRUE, data |-> <<>>]
        ELSE [err |-> FALSE,
              data |-> Concat([k \in 1 .. total |->
                                  (CHOOSE c \in At(k - 1) : TRUE).Data])]

\* Maker.ExtractData(pixeFilePath, outputDir): decode every frame, assemble
\* by index, concatenate per source file, undo the text or base64 encoding
\* and write one file per source file.  It is given no password.
ExtractData(archive) ==
    LET chunks == {DecodeFrame(archive.frames[i]) : i \in 1 .. Len(archive.frames)}
        names == {c.SourceFile : c \in chunks}
        OfFile(n) == {c \in chunks : c.SourceFile = n}
        Raw(n) == AssembleByIndex(OfFile(n), Cardinality(OfFile(n)))
        Decoded(n) ==
            IF Raw(n).err THEN Raw(n)
            ELSE IF HasTextPrefix((CHOOSE c \in OfFile(n) : TRUE).MimeType)
            THEN Raw(n)
            ELSE Base64Decode(Raw(n).data)
    IN  [err |-> \E n \in names : Decoded(n).err,
         files |-> [n \in names |-> Decoded(n).data]]

\* Converter.Extract into an empty output directory: the error returned and
\* the files the directory holds afterwards
Extract(cfg, archive, password) ==
    LET x == ExtractData(archive)
        Decrypted(n) == DecryptData(cfg.EncryptionEnabled, x.files[n], password)
    IN  IF x.err THEN [err |-> TRUE, out |-> EmptyMap]
        ELSE IF password = "" THEN [err |-> FALSE, out |-> x.files]
        ELSE [err |-> FALSE,
              out |-> [n \in DOMAIN x.files |->
                          IF Decrypted(n).err THEN x.files[n] ELSE Decrypted(n).data]]

File(name, data) == [name |-> name, data |-> data]

\* the inputs followed: one text file, one file without extension, or a
\* directory of two files
Inputs ==
    {<<File(n, d)>> : n \in {"test.txt", "blob"}, d \in FileData(MaxFileLen)}
    \cup {<<File("data.json", d1), File("test.txt", d2)>> :
             d1 \in FileData(MaxDirFileLen), d2 \in FileData(MaxDirFileLen)}

NoArchive == CreateVideo(<<>>, <<>>)

\* converter.New(cfg) of an API caller, and the input it is about to convert
ConvFresh ==
    \E cfg \in Configs, files \in Inputs :
        conv = [stage |-> "new", cfg |-> cfg, files |-> files, via |-> "none",
                encrypt |-> FALSE, password |-> "", err |-> FALSE,
                archive |-> NoArchive, usedCfg |-> cfg, q |-> "",
                extractVia |-> "none", extractErr |-> FALSE, out |-> EmptyMap]

\* the stage a Convert call leaves the caller in; a panic is not a return
StageAfterConvert(r) ==
    CASE r.fault = "panic" -> "panicked"
      [] r.err -> "failed"
      [] OTHER -> "converted"

\* a caller of the package converts the input with its converter
CallConvert(password, rs, rn) ==
    /\ conv.stage = "new"
    /\ LET r == Convert(conv.cfg, conv.files, password, rs, rn)
       IN  conv' = [conv EXCEPT !.stage = StageAfterConvert(r),
                                !.via = "api", !.password = password,
                                !.encrypt = password # "",
                                !.err = r.err, !.archive = r.archive]
    /\ UNCHANGED nonConvVars

\* pixe convert <input> [--encrypt] [--password pw]
handleConvert(encrypt, password, rs, rn) ==
    /\ conv.stage = "new"
    /\ IF encrypt /\ password = ""
       THEN conv' = [conv EXCEPT !.stage = "failed", !.via = "cli",
                                 !.encrypt = encrypt, !.password = password,
                                 !.err = TRUE]
       ELSE LET r == Convert(CliConfig, conv.files, password, rs, rn)
            IN  conv' = [conv EXCEPT
                            !.stage = StageAfterConvert(r),
                            !.via = "cli", !.encrypt = encrypt,
                            !.password = password, !.usedCfg = CliConfig,
                            !.err = r.err, !.archive = r.archive]
    /\ UNCHANGED nonConvVars

\* a caller of the package extracts the archive with its converter
CallExtract(q) ==
    /\ conv.stage = "converted"
    /\ LET r == Extract(conv.cfg, conv.archive, q)
       IN  conv' = [conv EXCEPT !.stage = "extracted", !.extractVia = "api",
                                !.q = q, !.extractErr = r.err, !.out = r.out]
    /\ UNCHANGED nonConvVars

\* pixe extract <archive> [--password q]
handleExtract(q) ==
    /\ conv.stage = "converted"
    /\ LET r == Extract(CliConfig, conv.archive, q)
       IN  conv' = [conv EXCEPT !.stage = "extracted", !.extractVia = "cli",
                                !.q = q, !.extractErr = r.err, !.out = r.out]
    /\ UNCHANGED nonConvVars

ConvNext ==
    \/ \E pw \in Passwords, rs \in RandSeeds, rn \in RandSeeds :
          CallConvert(pw, rs, rn)
    \/ \E e \in BOOLEAN, pw \in Passwords, rs \in RandSeeds, rn \in RandSeeds :
          handleConvert(e, pw, rs, rn)
    \/ \E q \in Passwords : CallExtract(q)
    \/ \E q \in Passwords : handleExtract(q)

ConvInit == ConvFresh /\ DeltaInit /\ crypto = CryptoIdle /\ RestIdle

SpecConvert == ConvInit /\ [][ConvNext]_vars

\* chunk sizes at and just outside the limits of Config.Validate
BoundaryChunkSizes == {0, 1, MetadataReserve, MaxChunkSize, MaxChunkSize + 1}

\* converter.New(cfg) with a chunk size at a limit: Validate rejects the
\* configuration ("invalid": no converter) or the converter is constructed
BoundaryFresh ==
    \E size \in BoundaryChunkSizes, files \in Inputs :
        LET cfg == [ChunkSize |-> size, EncryptionEnabled |-> FALSE]
        IN  conv = [stage |-> IF ChunkSizeRejected(cfg) THEN "invalid" ELSE "new",
                    cfg |-> cfg, files |-> files, via |-> "none",
                    encrypt |-> FALSE, password |-> "", err |-> FALSE,
                    archive |-> NoArchive, usedCfg |-> cfg, q |-> "",
                    extractVia |-> "none", extractErr |-> FALSE, out |-> EmptyMap]

BoundaryInit == BoundaryFresh /\ DeltaInit /\ crypto = CryptoIdle /\ RestIdle

SpecBoundary == BoundaryInit /\ [][ConvNext]_vars

(***************************************************************************)
(* Concurrent callers of the DeltaManager on one archive.  Each caller is  *)
(* a process or goroutine running CreateVersion or LoadVersionedMemory;    *)
(* a step is one file-system operation on the sidecar <id>.versions.       *)
(***************************************************************************)
\* number of concurrent callers followed
NumProcs == 2

Procs == 1 .. NumProcs

\* heads the archive may have when the callers start
StartHeads == {1, 2}

\* the sidecar holding the complete JSON of vm
Sidecar(vm) == [state |-> "complete", vm |-> vm]

\* the sidecar after os.WriteFile opened it with O_TRUNC and before all of
\* the new bytes are in it: empty or cut short
CutShort == [state |-> "truncated"]

\* LoadVersionedMemory on the bytes the sidecar holds at that moment
LoadVersionedMemory(file) ==
    IF file.state = "complete"
    THEN [err |-> FALSE, vm |-> file.vm]
    ELSE [err |-> TRUE]

\* the log of an archive whose head is n
LogWithHead(n) ==
    IF n = 1 THEN BaseMemory(Archive, Archive)
    ELSE LET base == BaseMemory(Archive, Archive)
         IN  AppendVersion(base, NewDeltaVersion(base, Archive))

\* CreateVersion between its load and its save: the log it is about to
\* write and the version number it reports
VersionPlan(ld, memoryID, newPixeFile) ==
    IF ld.err
    THEN [vm |-> BaseMemory(memoryID, newPixeFile), version |-> 1]
    ELSE [vm |-> AppendVersion(ld.vm, NewDeltaVersion(ld.vm, newPixeFile)),
          version |-> ld.vm.CurrentHead + 1]

IdleProc == [pc |-> "idle", op |-> "none", ld |-> [err |-> FALSE],
             plan |-> [version |-> 0], err |-> FALSE]

ParFresh ==
    \E n \in StartHeads :
        par = [stage |-> "running", n |-> n, file |-> Sidecar(LogWithHead(n)),
               procs |-> [p \in Procs |-> IdleProc]]

\* caller p enters CreateVersion or LoadVersionedMemory
ParCall(p, op) ==
    /\ par.procs[p].pc = "idle"
    /\ par' = [par EXCEPT !.procs[p].pc = "load", !.procs[p].op = op]
    /\ UNCHANGED nonParVars

\* os.ReadFile + json.Unmarshal of the sidecar
ParLoad(p) ==
    /\ par.procs[p].pc = "load"
    /\ LET ld == LoadVersionedMemory(par.file)
       IN  IF par.procs[p].op = "Load"
           THEN par' = [par EXCEPT !.procs[p].pc = "done", !.procs[p].ld = ld,
                                   !.procs[p].err = ld.err]
           ELSE par' = [par EXCEPT !.procs[p].pc = "save", !.procs[p].ld = ld,
                                   !.procs[p].plan = VersionPlan(ld, Archive, Archive)]
    /\ UNCHANGED nonParVars

\* SaveVersionedMemory, os.WriteFile opens the sidecar: it is truncated
ParTruncate(p) ==
    /\ par.procs[p].pc = "save"
    /\ par' = [par EXCEPT !.procs[p].pc = "write", !.file = CutShort]
    /\ UNCHANGED nonParVars

\* SaveVersionedMemory, os.WriteFile has written all bytes; the call returns
ParWrite(p) ==
    /\ par.procs[p].pc = "write"
    /\ par' = [par EXCEPT !.procs[p].pc = "done",
                          !.file = Sidecar(par.procs[p].plan.vm)]
    /\ UNCHANGED nonParVars

\* the caller is interrupted (killed, power loss) part-way through the write
ParCrash(p) ==
    /\ par.procs[p].pc = "write"
    /\ par' = [par EXCEPT !.procs[p].pc = "crashed", !.procs[p].err = TRUE]
    /\ UNCHANGED nonParVars

ParNext ==
    \E p \in Procs :
        \/ \E op \in {"CreateVersion", "Load"} : ParCall(p, op)
        \/ ParLoad(p)
        \/ ParTruncate(p)
        \/ ParWrite(p)
        \/ ParCrash(p)

ParInit ==
    DeltaInit /\ ParFresh /\ crypto = CryptoIdle /\ conv = ConvIdle
    /\ idx = IdxIdle /\ ver = VerIdle /\ pool = PoolIdle
    /\ val = ValIdle /\ strm = StrmIdle

SpecParallel == ParInit /\ [][ParNext]_vars

(***************************************************************************)
(* Indexer (internal/index/indexer.go).  The extracted files are a list of *)
(* texts; an embedding is a sequence of small integers; a score is a       *)
(* cosine in hundredths.                                                   *)
(***************************************************************************)
\* most extracted files followed
MaxFrames == 2

\* embedder dimensions followed (the code's are 384 and 1536)
Dims == {1, 2}

\* values of one embedding component
Comps == {-1, 0, 1}

\* contents of an extracted file
Texts == {"", "x"}

PoolOfVecs(d) == [1 .. d -> Comps]

\* Embed fails (API error) instead of returning a vector
EmbedFailed == [status |-> "error", vec |-> <<>>]

\* Embed returns the vector v
EmbedOk(v) == [status |-> "ok", vec |-> v]

RECURSIVE DotFrom(_, _, _)
\* the accumulation loop of cosineSimilarity from position i
DotFrom(a, b, i) ==
    IF i > Len(a) THEN 0 ELSE a[i] * b[i] + DotFrom(a, b, i + 1)

ScoreScale == 100

\* math.Sqrt, in whole units
ISqrt(n) == CHOOSE r \in 0 .. n : r * r <= n /\ n < (r + 1) * (r + 1)

\* cosineSimilarity(a, b), in hundredths
cosineSimilarity(a, b) ==
    IF Len(a) # Len(b) THEN 0
    ELSE LET dotProduct == DotFrom(a, b, 1)
             normA == DotFrom(a, a, 1)
             normB == DotFrom(b, b, 1)
             magnitude == ISqrt((dotProduct * dotProduct * ScoreScale * ScoreScale)
                                    \div (normA * normB))
         IN  IF normA = 0 \/ normB = 0 THEN 0
             ELSE IF dotProduct < 0 THEN 0 - magnitude ELSE magnitude

RECURSIVE BuildLoop_AbortOnFailure(_, _, _, _)
\* mutant of BuildLoop: the first Embed failure ends the loop
BuildLoop_AbortOnFailure(files, outcomes, i, frames) ==
    IF i > Len(files) THEN frames
    ELSE IF Len(files[i]) = 0 THEN BuildLoop_AbortOnFailure(files, outcomes, i + 1, frames)
    ELSE IF outcomes[i] = EmbedFailed THEN frames
    ELSE BuildLoop_AbortOnFailure(files, outcomes, i + 1,
                   Append(frames,
                          [FrameNumber |-> Len(frames),
                           ChunkIndex |-> Len(frames),
                           SourceFile |-> i,
                           ContentHash |-> Sha256Hex(files[i]),
                           ContentLen |-> Len(files[i]),
                           Embedding |-> outcomes[i].vec,
                           Preview |-> files[i]]))

RECURSIVE BuildLoop(_, _, _, _)
\* the loop of BuildIndex from file i; outcomes[i] is what Embed returns for
\* file i; Go's frameNum is Len(frames)
BuildLoop(files, outcomes, i, frames) ==
    IF i > Len(files) THEN frames
    ELSE IF Len(files[i]) = 0 THEN BuildLoop(files, outcomes, i + 1, frames)
    ELSE IF outcomes[i] = EmbedFailed THEN BuildLoop(files, outcomes, i + 1, frames)
    ELSE BuildLoop(files, outcomes, i + 1,
                   Append(frames,
                          [FrameNumber |-> Len(frames),
                           ChunkIndex |-> Len(frames),
                           SourceFile |-> i,
                           ContentHash |-> Sha256Hex(files[i]),
                           ContentLen |-> Len(files[i]),
                           Embedding |-> outcomes[i].vec,
                           Preview |-> files[i]]))

\* the MemoryIndex BuildIndex builds and saves
BuiltIndex(dim, files, outcomes) ==
    LET frames == BuildLoop(files, outcomes, 1, <<>>)
    IN  [VectorDim |-> dim, Frames |-> frames, TotalFrames |-> Len(frames),
         Version |-> 1]

\* the scored list of Search before it is sorted
ScoredFrames(index, queryEmbed) ==
    [i \in 1 .. Len(index.Frames) |->
        [frame |-> index.Frames[i],
         score |-> cosineSimilarity(queryEmbed, index.Frames[i].Embedding)]]

\* the orders sort.Slice may leave the list in: any one in which no element
\* is followed by one with a higher score (the sort is not stable)
SortedOrders(scores) ==
    {ord \in [1 .. Len(scores) -> 1 .. Len(scores)] :
        /\ \A i, j \in 1 .. Len(scores) : i # j => ord[i] # ord[j]
        /\ \A i \in 1 .. Len(scores) - 1 :
               scores[ord[i]].score >= scores[ord[i + 1]].score}

\* mutant of TopResults: topK is not clamped to the number of frames and the
\* results slice keeps its zero-valued tail
TopResults_NoClamp(scores, ord, topK) ==
    [i \in 1 .. topK |->
        IF i <= Len(scores)
        THEN [FrameNumber |-> scores[ord[i]].frame.FrameNumber,
              Score |-> scores[ord[i]].score,
              SourceFile |-> scores[ord[i]].frame.SourceFile,
              Preview |-> scores[ord[i]].frame.Preview,
              ChunkIndex |-> scores[ord[i]].frame.ChunkIndex]
        ELSE [FrameNumber |-> 0, Score |-> 0, SourceFile |-> 0, Preview |-> "",
              ChunkIndex |-> 0]]

\* Search after the sort: the first min(topK, len) scored frames as results
TopResults(scores, ord, topK) ==
    LET k == IF topK > Len(scores) THEN Len(scores) ELSE topK
    IN  [i \in 1 .. k |->
            [FrameNumber |-> scores[ord[i]].frame.FrameNumber,
             Score |-> scores[ord[i]].score,
             SourceFile |-> scores[ord[i]].frame.SourceFile,
             Preview |-> scores[ord[i]].frame.Preview,
             ChunkIndex |-> scores[ord[i]].frame.ChunkIndex]]

\* Embed is not called for the file
NotCalled == [status |-> "none", vec |-> <<>>]

\* what Embed may return for a text with an embedder of dimension d
EmbedOutcomes(d, text) ==
    IF Len(text) = 0 THEN {NotCalled}
    ELSE {EmbedFailed} \cup {EmbedOk(v) : v \in PoolOfVecs(d)}

EmptyIndex == [VectorDim |-> 0, Frames |-> <<>>, TotalFrames |-> 0, Version |-> 0]

\* NewIndexer(indexDir, embedder) and the files ExtractData will produce
IdxFresh ==
    \E d \in Dims, n \in 0 .. MaxFrames :
        \E files \in [1 .. n -> Texts] :
            idx = [stage |-> "new", dim |-> d, files |-> files,
                   outcomes |-> <<>>, index |-> EmptyIndex, persisted |-> FALSE,
                   buildErr |-> FALSE, searchDim |-> 0, query |-> <<>>, topK |-> 0,
                   results |-> <<>>, searchErr |-> FALSE]

\* BuildIndex when ExtractData fails: nothing is built or saved
BuildIndexNoFrames ==
    /\ idx.stage = "new"
    /\ idx' = [idx EXCEPT !.stage = "failed", !.buildErr = TRUE]
    /\ UNCHANGED nonIdxVars

\* BuildIndex; outcomes[i] is what Embed returns for file i
BuildIndex(outcomes) ==
    /\ idx.stage = "new"
    /\ \A i \in 1 .. Len(idx.files) :
           outcomes[i] \in EmbedOutcomes(idx.dim, idx.files[i])
    /\ idx' = [idx EXCEPT !.stage = "built", !.outcomes = outcomes,
                          !.index = BuiltIndex(idx.dim, idx.files, outcomes),
                          !.persisted = TRUE]
    /\ UNCHANGED nonIdxVars

\* Search on the loaded index by an indexer whose embedder fails on the query
SearchEmbedFails(d, topK) ==
    /\ idx.stage = "built"
    /\ idx' = [idx EXCEPT !.stage = "searched", !.searchDim = d, !.topK = topK,
                          !.searchErr = TRUE]
    /\ UNCHANGED nonIdxVars

\* Search on the loaded index by an indexer whose embedder has dimension d
\* and returns queryEmbed for the query
Search(d, queryEmbed, topK) ==
    /\ idx.stage = "built"
    /\ LET scores == ScoredFrames(idx.index, queryEmbed)
       IN  \E ord \in SortedOrders(scores) :
               idx' = [idx EXCEPT !.stage = "searched", !.searchDim = d,
                                  !.query = queryEmbed, !.topK = topK,
                                  !.results = TopResults(scores, ord, topK)]
    /\ UNCHANGED nonIdxVars

IdxNext ==
    \/ BuildIndexNoFrames
    \/ \E outcomes \in [1 .. Len(idx.files) -> UNION {EmbedOutcomes(idx.dim, t) : t \in Texts}] :
          BuildIndex(outcomes)
    \/ \E d \in Dims, topK \in 0 .. MaxFrames + 1 : SearchEmbedFails(d, topK)
    \/ \E d \in Dims, topK \in 0 .. MaxFrames + 1 :
          \E queryEmbed \in PoolOfVecs(d) : Search(d, queryEmbed, topK)

IdxInit ==
    DeltaInit /\ IdxFresh /\ crypto = CryptoIdle /\ conv = ConvIdle
    /\ par = ParIdle /\ ver = VerIdle /\ pool = PoolIdle
    /\ val = ValIdle /\ strm = StrmIdle

SpecIndex == IdxInit /\ [][IdxNext]_vars

(***************************************************************************)
(* handleVerify (cmd/pixe/handlers.go): the loop over the frames of one    *)
(* archive, one step per iteration.                                        *)
(***************************************************************************)
\* most frames GetFrameCount reports
MaxFrameCount == 4

\* failed frames that get a line of their own (`if failCount <= 5`)
MaxReportedFailures == 5

\* mutant of AfterFrame: the loop breaks at the first failed frame
AfterFrame_StopOnFail(v, failed) ==
    IF failed
    THEN [v EXCEPT !.attempted = Append(@, v.i),
                   !.failCount = @ + 1,
                   !.i = v.frameCount]
    ELSE [v EXCEPT !.attempted = Append(@, v.i),
                   !.successCount = @ + 1,
                   !.i = @ + 1]

\* one iteration of `for i := 0; i < frameCount; i++`: ExtractSingleFrame
\* of frame i returned with or without an error
AfterFrame(v, failed) ==
    IF failed
    THEN [v EXCEPT !.attempted = Append(@, v.i),
                   !.failCount = @ + 1,
                   !.reported = IF v.failCount + 1 <= MaxReportedFailures
                                THEN Append(@, v.i) ELSE @,
                   !.i = @ + 1]
    ELSE [v EXCEPT !.attempted = Append(@, v.i),
                   !.successCount = @ + 1,
                   !.i = @ + 1]

\* the lines printed after the loop
Verdict(v) ==
    IF v.failCount = 0
    THEN [integrity |-> "GOOD", failed |-> 0, total |-> v.frameCount]
    ELSE [integrity |-> "DEGRADED", failed |-> v.failCount, total |-> v.frameCount]

NoVerdict == [integrity |-> "", failed |-> 0, total |-> 0]

\* `pixe verify` is started on an archive: whether ffprobe works, how many
\* frames it has and which of them do not decode
VerFresh ==
    \E n \in 0 .. MaxFrameCount, probeFails \in BOOLEAN :
        \E bad \in SUBSET (0 .. n - 1) :
            /\ probeFails => (n = 0)
            /\ ver = [stage |-> "start", probeFails |-> probeFails,
                      frames |-> n, bad |-> bad,
                      frameCount |-> 0, i |-> 0,
                      successCount |-> 0, failCount |-> 0,
                      attempted |-> <<>>, reported |-> <<>>,
                      verdict |-> NoVerdict]

\* maker.GetFrameCount: an error ends the command with exit status 1
GetFrameCount ==
    /\ ver.stage = "start"
    /\ IF ver.probeFails
       THEN ver' = [ver EXCEPT !.stage = "exit1"]
       ELSE ver' = [ver EXCEPT !.stage = "loop", !.frameCount = ver.frames]
    /\ UNCHANGED nonVerVars

VerifyFrame ==
    /\ ver.stage = "loop"
    /\ ver.i < ver.frameCount
    /\ ver' = AfterFrame(ver, ver.i \in ver.bad)
    /\ UNCHANGED nonVerVars

VerifyVerdict ==
    /\ ver.stage = "loop"
    /\ ~(ver.i < ver.frameCount)
    /\ ver' = [ver EXCEPT !.stage = "done", !.verdict = Verdict(ver)]
    /\ UNCHANGED nonVerVars

VerNext == GetFrameCount \/ VerifyFrame \/ VerifyVerdict

VerInit ==
    DeltaInit /\ VerFresh /\ crypto = CryptoIdle /\ conv = ConvIdle
    /\ par = ParIdle /\ idx = IdxIdle /\ pool = PoolIdle
    /\ val = ValIdle /\ strm = StrmIdle

SpecVerify == VerInit /\ [][VerNext]_vars

(***************************************************************************)
(* Maker.ExtractMultipleFrames (internal/video/fast_extract.go): the       *)
(* caller's goroutine, the worker goroutines and the two channels.         *)
(***************************************************************************)
workerCount == 4

\* most frames requested in one call
MaxRequested == 5

\* mutant of PoolWorkers: one goroutine per requested frame
PoolWorkers_OnePerFrame(frameNumbers) == 1 .. Len(frameNumbers)

\* the goroutines started by the loop `for w := 0; w < workerCount; w++`
PoolWorkers(frameNumbers) == 1 .. workerCount

\* the frame numbers of a request for n frames
RequestOf(n) == [i \in 1 .. n |-> 2 * (n - i)]

\* mutant of ResultCap: resultChan holds a single result
ResultCap_One(frameNumbers) == 1

\* `make(chan result, len(frameNumbers))`: the capacity of resultChan
ResultCap(frameNumbers) == Len(frameNumbers)

\* a nil element of the chunks slice
NoChunk == -1

\* mutant of StoreResult: the chunk goes to the first free position
StoreResult_ByArrival(chunks, res) ==
    [chunks EXCEPT ![CHOOSE i \in 1 .. Len(chunks) :
                        /\ chunks[i] = NoChunk
                        /\ \A j \in 1 .. i - 1 : chunks[j] # NoChunk] = res.chunk]

\* `chunks[res.index] = res.chunk`
StoreResult(chunks, res) == [chunks EXCEPT ![res.index + 1] = res.chunk]

\* ExtractMultipleFrames is called: the workers are started, every frame is
\* sent to frameChan (buffered for all of them) and frameChan is closed.
\* The worker goroutines run the same code and are told apart only by the
\* frame they hold: waiting counts those at the channel receive, extracting
\* holds the frames inside ExtractSingleFrame, exited counts those returned
PoolFresh ==
    \E n \in 0 .. MaxRequested :
        pool = [stage |-> "running",
                frameNumbers |-> RequestOf(n),
                frameChan |-> [i \in 1 .. n |-> [num |-> RequestOf(n)[i], idx |-> i - 1]],
                waiting |-> Cardinality(PoolWorkers(RequestOf(n))),
                extracting |-> {},
                exited |-> 0,
                resultChan |-> <<>>,
                resultCap |-> ResultCap(RequestOf(n)),
                resultClosed |-> FALSE,
                failed |-> {},
                chunks |-> [i \in 1 .. n |-> NoChunk],
                err |-> FALSE]

\* `for frame := range frameChan`: a waiting worker receives a frame and
\* enters ExtractSingleFrame
WorkerReceive ==
    /\ pool.waiting > 0
    /\ pool.frameChan # <<>>
    /\ pool' = [pool EXCEPT !.waiting = @ - 1,
                            !.extracting = @ \cup {Head(pool.frameChan)},
                            !.frameChan = Tail(@)]
    /\ UNCHANGED nonPoolVars

\* ExtractSingleFrame of a frame returns (failed or not) and its worker
\* sends the result to resultChan; the send needs room in the channel.
\* failed remembers the frames whose extraction failed
WorkerFinish(frame, failed) ==
    /\ frame \in pool.extracting
    /\ Len(pool.resultChan) < pool.resultCap
    /\ pool' = [pool EXCEPT
                   !.extracting = @ \ {frame},
                   !.waiting = @ + 1,
                   !.failed = IF failed THEN @ \cup {frame.idx} ELSE @,
                   !.resultChan = Append(@, [chunk |-> frame.num,
                                             index |-> frame.idx,
                                             err |-> failed])]
    /\ UNCHANGED nonPoolVars

\* frameChan is closed and drained: the range loop of a waiting worker
\* ends, wg.Done
WorkerExit ==
    /\ pool.waiting > 0
    /\ pool.frameChan = <<>>
    /\ pool' = [pool EXCEPT !.waiting = @ - 1, !.exited = @ + 1]
    /\ UNCHANGED nonPoolVars

\* wg.Wait returns in the closing goroutine: resultChan is closed
CloseResults ==
    /\ ~pool.resultClosed
    /\ pool.waiting = 0
    /\ pool.extracting = {}
    /\ pool' = [pool EXCEPT !.resultClosed = TRUE]
    /\ UNCHANGED nonPoolVars

\* `for res := range resultChan` in the caller: one result is collected; a
\* failed one makes the call return nil and the error at once
Collect ==
    /\ pool.stage = "running"
    /\ pool.resultChan # <<>>
    /\ LET res == Head(pool.resultChan)
       IN  IF res.err
           THEN pool' = [pool EXCEPT !.stage = "returned", !.err = TRUE,
                                     !.chunks = <<>>,
                                     !.resultChan = Tail(@)]
           ELSE pool' = [pool EXCEPT !.chunks = StoreResult(@, res),
                                     !.resultChan = Tail(@)]
    /\ UNCHANGED nonPoolVars

\* resultChan is closed and drained: the call returns the chunks
ReturnChunks ==
    /\ pool.stage = "running"
    /\ pool.resultChan = <<>>
    /\ pool.resultClosed
    /\ pool' = [pool EXCEPT !.stage = "returned"]
    /\ UNCHANGED nonPoolVars

PoolNext ==
    \/ WorkerReceive
    \/ \E frame \in pool.extracting, failed \in BOOLEAN : WorkerFinish(frame, failed)
    \/ WorkerExit
    \/ CloseResults
    \/ Collect
    \/ ReturnChunks

PoolInit ==
    DeltaInit /\ PoolFresh /\ crypto = CryptoIdle /\ conv = ConvIdle
    /\ par = ParIdle /\ idx = IdxIdle /\ ver = VerIdle
    /\ val = ValIdle /\ strm = StrmIdle

SpecPool == PoolInit /\ [][PoolNext]_vars

\* the Go scheduler runs every goroutine that can take a step, and a
\* started ExtractSingleFrame returns
PoolFairness ==
    /\ WF_vars(WorkerReceive)
    /\ WF_vars(\E frame \in pool.extracting, failed \in BOOLEAN :
                   WorkerFinish(frame, failed))
    /\ WF_vars(WorkerExit)
    /\ WF_vars(CloseResults)
    /\ WF_vars(Collect)
    /\ WF_vars(ReturnChunks)

SpecPoolLive == PoolInit /\ [][PoolNext]_vars /\ PoolFairness

(***************************************************************************)
(* StreamingProcessor (package converter): ProcessFileStreaming, one step  *)
(* per iteration of its read loop, and the rest of StreamToVideo.          *)
(***************************************************************************)
\* the bytes of one read, standing for the 1 MiB of StreamChunkSize
StreamChunkSize == 2

\* longest file streamed
MaxStreamLen == 5

\* the file of n bytes that is streamed; its bytes are all different
StreamFile(n) == [i \in 1 .. n |-> 64 + i]

\* the digest field of a chunk that was given none (the empty string)
NoHash == [sha256 |-> <<-1>>]

\* `qr.Chunk{Index: chunkIndex, Data: string(chunkData), Total: estimatedChunks}`:
\* the other fields keep their zero values
StreamChunk(chunkIndex, chunkData, estimatedChunks) ==
    [ID |-> <<NoHash, -1>>,
     Index |-> chunkIndex,
     Total |-> estimatedChunks,
     Data |-> chunkData,
     SourceFile |-> "",
     MimeType |-> "",
     Hash |-> NoHash,
     Encrypted |-> FALSE]

\* `(totalBytes + chunkSize - 1) / chunkSize`
EstimatedChunks(totalBytes) == (totalBytes + StreamChunkSize - 1) \div StreamChunkSize

NoItem == [Name |-> "", Type |-> "", Size |-> 0, Hash |-> NoHash]

\* NewStreamingProcessor(conv) and StreamToVideo(filePath, outputPath,
\* encryptionPassword): the file has been opened; enabled is
\* conv.cryptoService.IsEnabled()
StrmFresh ==
    \E n \in 0 .. MaxStreamLen, name \in {"test.txt", "blob"},
       password \in {"", "p"}, enabled \in BOOLEAN :
        strm = [stage |-> "reading", name |-> name, data |-> StreamFile(n),
                password |-> password, enabled |-> enabled,
                bytesProcessed |-> 0, hashed |-> <<>>, chunks |-> <<>>,
                item |-> NoItem, archive |-> NoArchive, err |-> FALSE]

\* one iteration of the read loop with n > 0: the bytes read are hashed,
\* encrypted if a password was given and the service is enabled, and
\* appended to chunks as one chunk
StreamRead(rs, rn) ==
    /\ strm.stage = "reading"
    /\ strm.bytesProcessed < Len(strm.data)
    /\ LET left == Len(strm.data) - strm.bytesProcessed
           n == IF left < StreamChunkSize THEN left ELSE StreamChunkSize
           read == SubSeq(strm.data, strm.bytesProcessed + 1, strm.bytesProcessed + n)
           encrypts == strm.password # "" /\ strm.enabled
           enc == IF encrypts
                  THEN EncryptData(strm.enabled, read, strm.password, rs, rn)
                  ELSE [err |-> FALSE, data |-> read]
       IN  IF enc.err
           THEN strm' = [strm EXCEPT !.stage = "failed", !.err = TRUE,
                                     !.hashed = @ \o read]
           ELSE strm' = [strm EXCEPT
                            !.hashed = @ \o read,
                            !.chunks = Append(@, StreamChunk(Len(strm.chunks), enc.data,
                                                            EstimatedChunks(Len(strm.data)))),
                            !.bytesProcessed = @ + n]
    /\ UNCHANGED nonStrmVars

\* the read returns io.EOF: Total is set in every chunk, the hash is
\* finished and ProcessFileStreaming returns the chunks and the ContentItem
StreamEOF ==
    /\ strm.stage = "reading"
    /\ strm.bytesProcessed = Len(strm.data)
    /\ LET ext == TypeByExtension(strm.name)
           mimeType == IF ext = "" THEN "application/octet-stream" ELSE ext
       IN  strm' = [strm EXCEPT
                       !.stage = "processed",
                       !.chunks = [i \in 1 .. Len(strm.chunks) |->
                                      [strm.chunks[i] EXCEPT !.Total = Len(strm.chunks)]],
                       !.item = [Name |-> strm.name, Type |-> mimeType,
                                 Size |-> Len(strm.data),
                                 Hash |-> Sha256OfBytes(strm.hashed)]]
    /\ UNCHANGED nonStrmVars

\* the rest of StreamToVideo: the frames of all the chunks are generated and
\* handed to CreateVideo with the metadata
StreamToVideo ==
    /\ strm.stage = "processed"
    /\ LET frames == GenerateFrames(strm.chunks)
           metadata == [Version |-> "1.0", TotalChunks |-> Len(strm.chunks),
                        Contents |-> <<strm.item>>,
                        Config |-> [EncryptionEnabled |-> strm.enabled]]
       IN  strm' = [strm EXCEPT !.stage = "done",
                                !.archive = CreateVideo(frames, metadata)]
    /\ UNCHANGED nonStrmVars

StrmNext ==
    \/ \E rs \in RandSeeds, rn \in RandSeeds : StreamRead(rs, rn)
    \/ StreamEOF
    \/ StreamToVideo

StrmInit ==
    DeltaInit /\ StrmFresh /\ crypto = CryptoIdle /\ conv = ConvIdle
    /\ par = ParIdle /\ idx = IdxIdle /\ ver = VerIdle /\ pool = PoolIdle
    /\ val = ValIdle

SpecStream == StrmInit /\ [][StrmNext]_vars

(***************************************************************************)
(* Claims about the delta manager (checked under Spec).                    *)
(***************************************************************************)
\* the version log of the followed archive
Log == disk[Archive]

HasLog == Archive \in DOMAIN disk

\* C5: the first create_version on an archive with no version log creates
\* the log with base_artifact = new_artifact_path, head = 1,
\* branches = {main: 1} and no delta records, persists it, and returns
\* neither a VersionRecord nor an error.
C5_BaseInitialized ==
    [][(~HasLog /\ ret'.op = "CreateVersion")
        => /\ Archive \in DOMAIN disk'
           /\ disk'[Archive].BaseFile = ret'.path
           /\ disk'[Archive].CurrentHead = 1
           /\ DOMAIN disk'[Archive].Branches = {"main"}
           /\ disk'[Archive].Branches["main"] = 1
           /\ disk'[Archive].Versions = <<>>
           /\ ret'.version = <<>>
           /\ ~ret'.err]_vars

\* the base log was just created from an artifact other than the memory id
C5_Witness ==
    /\ HasLog
    /\ ret.op = "CreateVersion"
    /\ ret.version = <<>>
    /\ ret.path = "b.pixe"
    /\ Log.BaseFile = "b.pixe"

\* C6: every successful create_version on an initialized log appends exactly
\* one record with version = previous head + 1 and parent = previous head and
\* sets head and branches[main] to it; so versions are strictly increasing,
\* every version v > 1 has parent v - 1, head = branches[main], and head
\* never decreases, whatever create_branch calls are interleaved.
C6_AppendStep ==
    (HasLog /\ ret'.op = "CreateVersion" /\ ~ret'.err)
    => LET old == disk[Archive]
           new == disk'[Archive]
           n == Len(old.Versions)
       IN  /\ Len(new.Versions) = n + 1
           /\ SubSeq(new.Versions, 1, n) = old.Versions
           /\ new.Versions[n + 1].Version = old.CurrentHead + 1
           /\ new.Versions[n + 1].ParentVersion = old.CurrentHead
           /\ new.CurrentHead = old.CurrentHead + 1
           /\ new.Branches["main"] = old.CurrentHead + 1
           /\ ret'.version = << new.Versions[n + 1] >>

C6_Chain ==
    HasLog =>
        /\ \A i \in 1 .. Len(Log.Versions) :
              /\ Log.Versions[i].Version = i + 1
              /\ Log.Versions[i].ParentVersion = i
        /\ Log.CurrentHead = Len(Log.Versions) + 1
        /\ Log.CurrentHead = Log.Branches["main"]

C6_VersionsLinear ==
    /\ [][C6_AppendStep]_vars
    /\ [][HasLog => disk'[Archive].CurrentHead >= disk[Archive].CurrentHead]_vars
    /\ []C6_Chain

\* head 3 was reached by create_version with a branch created on the way
C6_Witness ==
    /\ HasLog
    /\ ret.op = "CreateVersion"
    /\ Log.CurrentHead = 3
    /\ "dev" \in DOMAIN Log.Branches

\* the artifact submitted for the head version
HeadArtifact(vm) ==
    IF vm.Versions = <<>> THEN vm.BaseFile ELSE vm.Versions[Len(vm.Versions)].DeltaFile

\* C7: for 1 <= v <= head, reconstruct_version(v) yields an artifact whose
\* content is the archive content as of version v (the artifact submitted
\* when v was created), whatever was versioned afterwards.  Stated for the
\* states in which the head artifact still holds what was versioned last.
C7_ReconstructContent ==
    (/\ ret.op = "ReconstructVersion"
     /\ ~ret.err
     /\ ret.from >= 1
     /\ ret.from <= Log.CurrentHead
     /\ ContentAt(HeadArtifact(Log)) = hist[Archive][Log.CurrentHead])
    => ContentAt(ret.path) = hist[Archive][ret.from]

RECURSIVE OpsOfVersions(_, _, _)
\* the operations of the versions lo..hi of the log, in ascending version order
OpsOfVersions(vm, lo, hi) ==
    IF lo > hi
    THEN <<>>
    ELSE LET r == CHOOSE x \in {vm.Versions[i] : i \in 1 .. Len(vm.Versions)} :
                      x.Version = lo
         IN  r.Operations \o OpsOfVersions(vm, lo + 1, hi)

\* C8: for 1 <= from <= to <= head, get_version_diff(from, to) returns exactly
\* the operations of the versions v with from < v <= to, concatenated in
\* ascending version order (nothing when from = to).
C8_DiffIsHalfOpenRange ==
    (/\ ret.op = "GetVersionDiff"
     /\ ~ret.err
     /\ 1 <= ret.from
     /\ ret.from <= ret.to
     /\ ret.to <= Log.CurrentHead)
    => ret.ops = OpsOfVersions(Log, ret.from + 1, ret.to)

\* diff(1, 3) returned the two different operations of versions 2 and 3
C8_Witness ==
    /\ ret.op = "GetVersionDiff"
    /\ ~ret.err
    /\ ret.from = 1
    /\ ret.to = 3
    /\ Log.CurrentHead = 3
    /\ Len(ret.ops) = 2
    /\ ret.ops[1] # ret.ops[2]

\* C9: get_version_diff(from, to) fails with an error whenever from or to
\* lies outside 1..head; it never returns an operation list for such a call.
C9_DiffRejectsOutOfRange ==
    (/\ ret.op = "GetVersionDiff"
     /\ HasLog
     /\ \/ ret.from \notin 1 .. Log.CurrentHead
        \/ ret.to \notin 1 .. Log.CurrentHead)
    => ret.err

\* C10: after n successful create_version calls starting from no log,
\* list_versions returns n entries, one per version.
C10_ListHasOneEntryPerVersion ==
    (ret.op = "ListVersions" /\ ~ret.err)
    => Len(ret.versions) = Len(hist[Archive])

(***************************************************************************)
(* Claims about the EncryptionService (checked under SpecCrypto).          *)
(***************************************************************************)
\* C2: with encryption enabled, for every buffer b and non-empty passwords
\* p and q, DecryptData(EncryptData(b, p), q) returns exactly b when q = p
\* and an error with no plaintext when q # p.
C2_DecryptInvertsEncrypt ==
    (/\ crypto.stage = "decrypted"
     /\ crypto.enabled
     /\ crypto.intact
     /\ crypto.password # ""
     /\ crypto.q # "")
    => IF crypto.q = crypto.password
       THEN ~crypto.dec.err /\ crypto.dec.data = crypto.data
       ELSE crypto.dec.err /\ crypto.dec.data = <<>>

\* a two-byte buffer sealed under "p" was refused under "q"
C2_Witness ==
    /\ crypto.stage = "decrypted"
    /\ crypto.enabled
    /\ crypto.intact
    /\ crypto.password = "p"
    /\ crypto.q = "q"
    /\ Len(crypto.data) = 2
    /\ Len(crypto.enc.data) = HeaderLen + 2 + TagLen
    /\ crypto.dec.err

(***************************************************************************)
(* Claims about the converter (checked under SpecConvert).                 *)
(***************************************************************************)
\* the bytes of every input file, by name
OriginalFiles == [n \in {conv.files[i].name : i \in 1 .. Len(conv.files)} |->
                     (CHOOSE f \in {conv.files[i] : i \in 1 .. Len(conv.files)} :
                         f.name = n).data]

\* every input file is non-empty, and a file with a text MIME type holds
\* well-formed UTF-8
OrdinaryInput ==
    \A i \in 1 .. Len(conv.files) :
        /\ Len(conv.files[i].data) >= 1
        /\ HasTextPrefix(TypeByExtension(conv.files[i].name))
              => Utf8Coerce(conv.files[i].data) = conv.files[i].data

\* the converter has the chunk size of the documented scenarios, so that a
\* small file is a single chunk
ScenarioChunkSize == conv.cfg.ChunkSize = CliConfig.ChunkSize

\* no input file has a text MIME type: every payload is base64
BinaryInput ==
    \A i \in 1 .. Len(conv.files) : ~HasTextPrefix(TypeByExtension(conv.files[i].name))

\* C1: Extract(Convert(F)) with the same password choice for both calls
\* (none, or one non-empty password) succeeds and writes, for every source
\* file, a file whose bytes equal the original bytes.
C1_RoundTrip ==
    (/\ conv.stage = "extracted"
     /\ conv.via = "api"
     /\ conv.extractVia = "api"
     /\ conv.q = conv.password
     /\ ScenarioChunkSize
     /\ OrdinaryInput)
    => /\ ~conv.extractErr
       /\ conv.out = OriginalFiles

\* the chunks the frames of the archive decode to
ArchiveChunks ==
    {DecodeFrame(conv.archive.frames[i]) : i \in 1 .. Len(conv.archive.frames)}

\* the plain encodings of the source bytes of the file a chunk belongs to
PlainPayloads(c) ==
    UNION {{conv.files[i].data, Base64Encode(conv.files[i].data)} :
              i \in {k \in 1 .. Len(conv.files) : conv.files[k].name = c.SourceFile}}

\* C3: after `convert --encrypt --password pw` with a non-empty pw, every
\* data chunk of the archive has its encrypted flag set and no chunk payload
\* is the plain (raw or base64) encoding of its source file.
C3_CliEncryptStoresCiphertext ==
    (/\ conv.stage = "converted"
     /\ conv.via = "cli"
     /\ conv.encrypt
     /\ conv.password # ""
     /\ OrdinaryInput)
    => \A c \in ArchiveChunks :
           /\ c.Encrypted
           /\ c.Data \notin PlainPayloads(c)

\* C4: Extract of an archive converted with password P, called with a
\* password Q # P, returns an error; it succeeds with the original bytes
\* only when Q = P.
C4_WrongPasswordFails ==
    (/\ conv.stage = "extracted"
     /\ conv.via = "api"
     /\ conv.extractVia = "api"
     /\ conv.password # ""
     /\ conv.q # ""
     /\ ScenarioChunkSize
     /\ OrdinaryInput
     /\ BinaryInput
     /\ \A c \in ArchiveChunks : c.Encrypted)
    => /\ conv.q # conv.password => conv.extractErr
       /\ (~conv.extractErr /\ conv.out = OriginalFiles) => conv.q = conv.password

(***************************************************************************)
(* Claims about the archive layout (checked under SpecConvert).            *)
(***************************************************************************)
\* the chunk data frame f of the archive decodes to, the metadata frame
\* being frame 0 and the data frames following it in the order Convert
\* handed them to CreateVideo
DataFrameChunk(f) == DecodeFrame(conv.archive.frames[f])

\* C19: in every archive Convert produced, from one file or from a
\* directory, the data frames are frames 1..total_chunks and data frame f
\* decodes to the chunk with index f - 1, so the chunk indices of the
\* archive are 0..total_chunks-1 without repetition.
C19_FrameNumberIsIndexPlusOne ==
    conv.stage = "converted" =>
        LET total == conv.archive.metadata.TotalChunks
        IN  /\ Len(conv.archive.frames) = total
            /\ \A f \in 1 .. total : DataFrameChunk(f).Index = f - 1
            /\ \A f, g \in 1 .. total :
                   DataFrameChunk(f).Index = DataFrameChunk(g).Index => f = g

\* C20: for every file converted, with or without a password, the hash of
\* its ContentItem is the SHA-256 of the original file bytes, before any
\* encryption, and every chunk of the file carries that hash; the hash
\* therefore does not depend on the password.
C20_HashIsOfOriginalBytes ==
    conv.stage = "converted" =>
        \A i \in 1 .. Len(conv.files) :
            LET original == Sha256OfBytes(conv.files[i].data)
            IN  /\ conv.archive.metadata.Contents[i].Hash = original
                /\ \A c \in ArchiveChunks :
                       c.SourceFile = conv.files[i].name => c.Hash = original

(***************************************************************************)
(* Claims about branches (checked under Spec).                             *)
(***************************************************************************)
\* C11: CreateBranch(name, from) on an archive with a version log fails and
\* leaves the log as it was when name is already a branch (main included);
\* otherwise it succeeds, adds exactly name -> from and leaves the head, the
\* base artifact, the version records and every other branch unchanged.
C11_CreateBranchAddsOneEntry ==
    [][\A b \in BranchNames, v \in BranchArgs :
          (HasLog /\ CreateBranch(Archive, b, v)) =>
              IF b \in DOMAIN Log.Branches
              THEN ret'.err /\ disk' = disk
              ELSE /\ ~ret'.err
                   /\ DOMAIN disk' = DOMAIN disk
                   /\ DOMAIN disk'[Archive].Branches = DOMAIN Log.Branches \cup {b}
                   /\ disk'[Archive].Branches[b] = v
                   /\ \A o \in DOMAIN Log.Branches :
                          disk'[Archive].Branches[o] = Log.Branches[o]
                   /\ disk'[Archive].CurrentHead = Log.CurrentHead
                   /\ disk'[Archive].BaseFile = Log.BaseFile
                   /\ disk'[Archive].Versions = Log.Versions
                   /\ disk'[Archive].MemoryID = Log.MemoryID]_vars

\* a branch dev was added to a log that has delta versions
C11_Witness ==
    /\ HasLog
    /\ ret.op = "CreateBranch"
    /\ ~ret.err
    /\ "dev" \in DOMAIN Log.Branches
    /\ Len(Log.Versions) >= 1

\* C27: after any sequence of CreateVersion and CreateBranch calls, every
\* branch of the version log points at an existing version:
\* 1 <= branches[b] <= head.
C27_BranchesPointAtVersions ==
    HasLog => \A b \in DOMAIN Log.Branches :
                  1 <= Log.Branches[b] /\ Log.Branches[b] <= Log.CurrentHead

(***************************************************************************)
(* Claims about concurrent use of the sidecars (checked under              *)
(* SpecParallel).                                                          *)
(***************************************************************************)
\* the callers whose CreateVersion returned success
Appended == {p \in Procs : /\ par.procs[p].op = "CreateVersion"
                           /\ par.procs[p].pc = "done"
                           /\ ~par.procs[p].err}

\* nobody is inside a call and no save was interrupted
Quiescent == \A p \in Procs : par.procs[p].pc \in {"idle", "done"}

C13_LoadSeesCompleteSidecar ==
    \A p \in Procs :
        (par.procs[p].op = "Load" /\ par.procs[p].pc = "done")
        => /\ ~par.procs[p].err
           /\ par.procs[p].ld.vm.CurrentHead >= par.n

(***************************************************************************)
(* Claims about the Indexer (checked under SpecIndex).                     *)
(***************************************************************************)
Searched == idx.stage = "searched" /\ ~idx.searchErr

\* the score of the index entry with frame number f against the last query
EntryScore(f) == cosineSimilarity(idx.query, idx.index.Frames[f + 1].Embedding)

\* the frame numbers of the index and those the last search returned
EntryNumbers == {idx.index.Frames[i].FrameNumber : i \in 1 .. Len(idx.index.Frames)}

ReturnedNumbers == {idx.results[i].FrameNumber : i \in 1 .. Len(idx.results)}

\* C14: a search on an index with N entries returns exactly min(k, N)
\* results, each a different entry with its cosine score; no entry left out
\* scores strictly higher than a returned one; the results are in
\* non-increasing score order; an entry with a zero-norm embedding or one of
\* another length than the query's scores 0.
C14_SearchReturnsTopK ==
    Searched =>
        LET N == Len(idx.index.Frames)
            R == idx.results
        IN  /\ Len(R) = IF idx.topK < N THEN idx.topK ELSE N
            /\ ReturnedNumbers \subseteq EntryNumbers
            /\ Cardinality(ReturnedNumbers) = Len(R)
            /\ \A i \in 1 .. Len(R) : R[i].Score = EntryScore(R[i].FrameNumber)
            /\ \A f \in EntryNumbers \ ReturnedNumbers :
                   \A i \in 1 .. Len(R) : EntryScore(f) <= R[i].Score
            /\ \A i \in 1 .. Len(R) - 1 : R[i].Score >= R[i + 1].Score
            /\ \A i \in 1 .. Len(R) :
                   LET e == idx.index.Frames[R[i].FrameNumber + 1].Embedding
                   IN  (Len(e) # Len(idx.query) \/ \A c \in 1 .. Len(e) : e[c] = 0)
                           => R[i].Score = 0

\* the better of two entries with different scores was returned for k = 1
\* and the one left out scores below zero
C14_Witness ==
    /\ Searched
    /\ Len(idx.index.Frames) = 2
    /\ idx.topK = 1
    /\ Len(idx.results) = 1
    /\ idx.results[1].Score > 0
    /\ \E f \in EntryNumbers \ ReturnedNumbers : EntryScore(f) < 0

\* C15: a search whose embedder has another dimension than the one the
\* index was built with is rejected with an error.
C15_SearchRejectsOtherDimension ==
    (/\ idx.stage = "searched"
     /\ Len(idx.index.Frames) >= 1
     /\ idx.searchDim # idx.index.VectorDim)
    => idx.searchErr

\* the files of the build that are non-empty and whose Embed call succeeded
Embedded == {i \in 1 .. Len(idx.files) :
                Len(idx.files[i]) > 0 /\ idx.outcomes[i] # EmbedFailed}

\* C16: whatever Embed calls fail, the built index has an entry for exactly
\* the non-empty extracted files whose Embed call succeeded, TotalFrames is
\* the number of entries, and the build succeeds and is persisted.
C16_BuildSkipsFailedEmbeds ==
    idx.stage \in {"built", "searched"} =>
        LET F == idx.index.Frames
        IN  /\ {F[j].SourceFile : j \in 1 .. Len(F)} = Embedded
            /\ Len(F) = Cardinality(Embedded)
            /\ \A j \in 1 .. Len(F) : F[j].Embedding = idx.outcomes[F[j].SourceFile].vec
            /\ idx.index.TotalFrames = Len(F)
            /\ ~idx.buildErr
            /\ idx.persisted

\* the first of two non-empty files failed to embed and the second is indexed
C16_Witness ==
    /\ idx.stage = "built"
    /\ Len(idx.files) = 2
    /\ Len(idx.files[1]) > 0
    /\ idx.outcomes[1] = EmbedFailed
    /\ Embedded = {2}
    /\ Len(idx.index.Frames) = 1

\* C26: Search ranks with a stable sort: two returned entries with equal
\* score keep the order they have in index.Frames, and an entry left out is
\* not ahead, in the index, of a returned entry with the same score.
C26_SearchSortIsStable ==
    Searched =>
        /\ \A i, j \in 1 .. Len(idx.results) :
               (i < j /\ idx.results[i].Score = idx.results[j].Score)
                   => idx.results[i].FrameNumber < idx.results[j].FrameNumber
        /\ \A f \in EntryNumbers \ ReturnedNumbers :
               \A i \in 1 .. Len(idx.results) :
                   idx.results[i].Score = EntryScore(f)
                       => idx.results[i].FrameNumber < f

\* C29: the frame number of every entry of a built index is the position,
\* counted from 0, of the embedded file in the sequence of extracted files,
\* also when earlier files were skipped.
C29_FrameNumberIsPosition ==
    idx.stage \in {"built", "searched"} =>
        \A j \in 1 .. Len(idx.index.Frames) :
            idx.index.Frames[j].FrameNumber = idx.index.Frames[j].SourceFile - 1

(***************************************************************************)
(* Claims about handleVerify (checked under SpecVerify).                   *)
(***************************************************************************)
\* C17: the verifier attempts frames 0, 1, 2, ... once each in ascending
\* order and goes on after a failed frame; when it prints the verdict every
\* frame 0..frame_count-1 was attempted, success_count + fail_count =
\* frame_count, and the verdict is GOOD iff fail_count = 0, otherwise
\* DEGRADED with the number of all failed frames.
C17_VerifierWalksEveryFrame ==
    /\ ver.stage \in {"loop", "done"} =>
          /\ ver.attempted = [k \in 1 .. ver.i |-> k - 1]
          /\ ver.successCount + ver.failCount = ver.i
          /\ ver.failCount = Cardinality({f \in ver.bad : f < ver.i})
    /\ ver.stage = "done" =>
          /\ ver.i = ver.frames
          /\ ver.successCount + ver.failCount = ver.frames
          /\ (ver.verdict.integrity = "GOOD") = (ver.failCount = 0)
          /\ ver.failCount # 0 =>
                /\ ver.verdict.integrity = "DEGRADED"
                /\ ver.verdict.failed = Cardinality(ver.bad)

\* a verification that went on past a failed frame that was not the last
\* one and ended DEGRADED
C17_Witness ==
    /\ ver.stage = "done"
    /\ ver.frames >= 3
    /\ 0 \in ver.bad
    /\ (ver.frames - 1) \notin ver.bad
    /\ ver.verdict.integrity = "DEGRADED"

(***************************************************************************)
(* Claims about ExtractMultipleFrames (checked under SpecPool).            *)
(***************************************************************************)
\* the goroutines that are inside ExtractSingleFrame
InProgress == pool.extracting

\* C18: at any moment of an ExtractMultipleFrames call, whatever the number
\* of frames requested, at most 4 ExtractSingleFrame invocations are in
\* progress.
C18_AtMostFourInProgress == Cardinality(InProgress) <= 4

\* more than four frames were requested, four are being extracted and one
\* is still waiting in the channel
C18_Witness ==
    /\ Len(pool.frameNumbers) > 4
    /\ Cardinality(InProgress) = 4
    /\ pool.frameChan # <<>>

\* C28: when every extraction succeeded the call returns, without error,
\* a list as long as frameNumbers whose element i is the chunk of frame
\* frameNumbers[i], whatever the order the workers finished in; when an
\* extraction failed it returns an error and no list.
C28_ChunksFollowRequestOrder ==
    pool.stage = "returned" =>
        IF pool.failed = {}
        THEN /\ ~pool.err
             /\ Len(pool.chunks) = Len(pool.frameNumbers)
             /\ \A i \in 1 .. Len(pool.frameNumbers) :
                    pool.chunks[i] = pool.frameNumbers[i]
        ELSE pool.err /\ pool.chunks = <<>>

\* five frames were extracted without failure and the call returned them
C28_Witness ==
    /\ pool.stage = "returned"
    /\ ~pool.err
    /\ pool.failed = {}
    /\ Len(pool.frameNumbers) > workerCount
    /\ pool.chunks = pool.frameNumbers

\* the call returned and every goroutine it started has ended
PoolAtRest ==
    /\ pool.stage = "returned"
    /\ pool.extracting = {}
    /\ pool.waiting = 0
    /\ pool.exited = Cardinality(PoolWorkers(pool.frameNumbers))
    /\ pool.resultClosed

\* C30: every ExtractMultipleFrames call returns, for every request and
\* every pattern of failures, and every worker goroutine and the closing
\* goroutine end, also after an early error return.
C30_ExtractMultipleFramesTerminates == <>[]PoolAtRest

\* after an early error return, with results of other frames still in the
\* channel, the workers have all ended
C30_Witness ==
    /\ PoolAtRest
    /\ pool.err
    /\ Len(pool.frameNumbers) > workerCount
    /\ Len(pool.resultChan) >= workerCount

(***************************************************************************)
(* Claims about Config.Validate (checked under SpecConfig).                *)
(***************************************************************************)
\* C24: with creatable directories, Validate accepts a configuration iff
\* 1 <= chunk_size <= 4000, 0 <= quality <= 51 and 0 < frame_rate <= 60; the
\* default configuration is accepted; chunk_size 0, chunk_size 5000 and
\* quality 100 are rejected whatever the rest.
C24_ValidateAcceptsExactlyTheRanges ==
    val.stage = "validated" =>
        LET c == val.input
        IN  /\ val.dirsOk =>
                  ((val.err = "") <=>
                      (/\ 1 <= c.ChunkSize /\ c.ChunkSize <= 4000
                       /\ 0 <= c.Quality /\ c.Quality <= 51
                       /\ 0 < c.FrameRate /\ c.FrameRate <= 600))
            /\ (c = Default /\ val.dirsOk) => val.err = ""
            /\ (c.ChunkSize \in {0, 5000} \/ c.Quality = 100) => val.err # ""

\* the default configuration with quality 100 was rejected for its quality
C24_Witness ==
    /\ val.stage = "validated"
    /\ val.input = [Default EXCEPT !.Quality = 100]
    /\ val.dirsOk
    /\ val.err = "quality"

(***************************************************************************)
(* Claims about the chunk-size limits (checked under SpecBoundary).        *)
(***************************************************************************)
\* C23: with chunk_size 1 and with chunk_size 4000 the converter is
\* constructed and converting a non-empty file ends normally with chunks;
\* chunk_size 0 and chunk_size 4001 are rejected when the converter is
\* constructed, before any chunk is made.
C23_BoundaryChunkSizesConvert ==
    /\ conv.cfg.ChunkSize \in {0, 4001} =>
           conv.stage = "invalid" /\ conv.archive = NoArchive
    /\ conv.cfg.ChunkSize \in {1, 4000} => conv.stage # "invalid"
    /\ (/\ conv.cfg.ChunkSize \in {1, 4000}
        /\ conv.via = "api"
        /\ \A i \in 1 .. Len(conv.files) : Len(conv.files[i].data) >= 1)
       => /\ conv.stage \in {"converted", "extracted"}
          /\ Len(conv.archive.frames) >= 1

(***************************************************************************)
(* Claims about the streaming path (checked under SpecStream).             *)
(***************************************************************************)
\* the payload of chunk i is ciphertext: it decrypts under the password of
\* the conversion
IsCiphertext(i) == ~DecryptData(TRUE, strm.chunks[i].Data, strm.password).err

\* the archive metadata says the archive is encrypted
MetadataSaysEncrypted ==
    /\ "Encrypted" \in DOMAIN strm.archive.metadata
    /\ strm.archive.metadata.Encrypted

\* C21: in an archive written by the streaming path the encrypted flag of
\* every chunk is true iff the chunk's data is ciphertext, and the metadata
\* records encrypted = true exactly when the data chunks are ciphertext.
C21_EncryptedFlagMatchesData ==
    strm.stage = "done" =>
        /\ \A i \in 1 .. Len(strm.archive.frames) :
               DecodeFrame(strm.archive.frames[i]).Encrypted <=> IsCiphertext(i)
        /\ Len(strm.chunks) >= 1 =>
               (MetadataSaysEncrypted <=> \A i \in 1 .. Len(strm.chunks) : IsCiphertext(i))

\* C22: the chunks ProcessFileStreaming returns have index 0, 1, ..., n-1
\* in input order and total n, every chunk but the last has exactly the
\* chunk size, and the payloads concatenated in index order are the input.
C22_ChunksPartitionTheInput ==
    strm.stage \in {"processed", "done"} =>
        LET n == Len(strm.chunks)
        IN  /\ \A i \in 1 .. n :
                   /\ strm.chunks[i].Index = i - 1
                   /\ strm.chunks[i].Total = n
                   /\ i < n => Len(strm.chunks[i].Data) = StreamChunkSize
            /\ Concat([i \in 1 .. n |-> strm.chunks[i].Data]) = strm.data

\* C25: at every point of a streaming conversion the processor holds at
\* most one chunk payload, however many chunks were already read.
C25_OneChunkResident ==
    strm.stage \in {"reading", "processed"} => Len(strm.chunks) <= 1

====
